---- MODULE Spec2Model ----
(***************************************************************************)
(* Model of the VRT mosaic builder (src/src/programs/raster/vrt.rs) and of *)
(* the geometry equivalence helper (src/src/test_utils.rs).                *)
(*                                                                         *)
(* Strings are byte sequences over Bytes, 0 being the NUL byte.  Native    *)
(* buffers (CString, Vec) carry an allocation state so that a pointer that *)
(* outlives its buffer is visible at the FFI call.  The external engine    *)
(* (GDAL) is modelled from its documented contract; what it reads through  *)
(* a pointer into a released buffer is a nondeterministic choice.          *)
(***************************************************************************)
EXTENDS Integers, Sequences, FiniteSets, TLC

\* ------------------------------------------------------------------ bounds
MaxStrLen == 2
MaxSrc == 2
NumDatasets == 2
MaxArgs == 2
\* A source list holds up to MaxSrc entries one by one and goes on with up to
\* MaxBlocks blocks of 2^31 copies of its last entry.
MaxBlocks == 2

\* ------------------------------------------------------------- value sets
Bytes == {0, 1}

SeqsUpTo(S, n) == UNION {[1..k -> S] : k \in 0..n}

Strings == SeqsUpTo(Bytes, MaxStrLen)

None == <<>>
Some(x) == <<x>>
IsSome(o) == Len(o) = 1

Handles == 1..NumDatasets
\* What a handle-sized cell of memory can hold: a live handle, or (0) a bit
\* pattern that is no live dataset handle.
HandleValues == 0..NumDatasets

\* ------------------------------------------------- native string conversion
HasNul(s) == \E i \in 1..Len(s) : s[i] = 0

\* What C code reads from a NUL-terminated buffer: the bytes before the first NUL.
RECURSIVE CView(_)
CView(buf) ==
    IF buf = <<>> \/ Head(buf) = 0 THEN <<>> ELSE <<Head(buf)>> \o CView(Tail(buf))

\* A conversion that appends the terminator without looking for interior NULs.
CStringNewUnchecked(s) == [ok |-> TRUE, buf |-> s \o <<0>>]

\* std::ffi::CString::new: fails on an interior NUL, else appends the terminator.
CStringNew(s) ==
    IF HasNul(s) THEN [ok |-> FALSE, buf |-> <<>>] ELSE [ok |-> TRUE, buf |-> s \o <<0>>]

\* utils::_path_to_c_string: the path's bytes as a CString, or an encoding error.
PathToCString(p) == CStringNew(p)

\* A usize n is held as [hi, lo] with n = hi * 2^31 + lo and 0 <= lo < 2^31, so
\* that a length of 2^31 and more is a value the checker can hold.
USize(hi, lo) == [hi |-> hi, lo |-> lo]
IsZero(n) == n.hi = 0 /\ n.lo = 0

\* `n as c_int` on a 64-bit usize, c_int having 32 bits: the low 32 bits of n,
\* read as two's complement.  Bits 0..30 of n are lo and bit 31 is the parity
\* of hi: the result is lo when bit 31 is clear and lo - 2^31 when it is set.
AsCInt(n) == IF n.hi % 2 = 0 THEN n.lo ELSE n.lo - 2147483647 - 1

\* ------------------------------------------------------------ the world
\* Band count of the open dataset behind a handle.
DatasetBands(h) == IF h = NumDatasets THEN 3 ELSE 1

\* Band count of the raster file a name resolves to; 0 when there is no such file.
FileBands(s) == IF s = <<>> \/ HasNul(s) THEN 0 ELSE IF Len(s) = MaxStrLen THEN 3 ELSE 1

MsgNone == "no error"
MsgNoSource == "No input dataset specified"
MsgOpen == "cannot open source"
MsgBadHandle == "invalid dataset handle"
MsgFree == "options released"

VARIABLES
    pc,          \* position of the caller / of _build_vrt
    mode,        \* "none" | "DS" | "Path": the DSSpec variant of the build
    dest,        \* Option<&Path>
    datasets,    \* DSSpec::DS: the borrowed datasets, by handle
    paths,       \* DSSpec::Path: the source identifiers
    srcBlocks,   \* blocks of 2^31 copies of the last entry that follow it in the list
    newArgs,     \* Option of the args BuildVRTOptions::new is running on
    newResult,   \* "none" | "Ok" | "EncodingError"
    optState,    \* the BuildVRTOptions value: "None" | "Live" | "Freed"
    optGiven,    \* the build call was given Some(options)
    nOptNew,     \* calls of GDALBuildVRTOptionsNew
    nOptFree,    \* calls of GDALBuildVRTOptionsFree
    cDest,       \* the destination CString: "none" | "live" | "freed"
    cOptions,    \* "NULL" | "obj": the options pointer resolved for the call
    pathIdx,     \* identifiers converted so far by the Path arm
    strBufs,     \* allocation state of each identifier CString
    arrBuf,      \* allocation state of the source array: "none" | "live" | "freed"
    srcArgs,     \* (src_count, src_datasets, src_dataset_names)
    call,        \* what GDALBuildVRT was called with and what it left behind
    datasetOut,  \* the handle GDALBuildVRT returned
    lastErr,     \* the engine's diagnostic slot
    result,      \* the build's Result<Dataset>
    persisted,   \* Option of the band count of the file written at dest
    reopened,    \* Option of the band count of the reopened destination
    gpc,         \* geometry comparison: "off" | "input" | "done"
    gExpected,   \* assert_geom_equivalence: expected
    gTest,       \* assert_geom_equivalence: test
    gOutcome     \* its outcome: returned (ok) or the panic it raised

vrtVars == <<pc, mode, dest, datasets, paths, srcBlocks, newArgs, newResult, optState, optGiven,
             nOptNew, nOptFree, cDest, cOptions, pathIdx, strBufs, arrBuf, srcArgs,
             call, datasetOut, lastErr, result, persisted, reopened>>
geomVars == <<gpc, gExpected, gTest, gOutcome>>
vars == <<vrtVars, geomVars>>

NoArgs == [src_count |-> USize(0, 0), src_datasets |-> "NULL", src_dataset_names |-> "NULL"]
NoCall == [made |-> FALSE, src_count |-> 0, src_datasets |-> "NULL",
           src_dataset_names |-> "NULL", c_options |-> "NULL",
           destLive |-> TRUE, arrLive |-> TRUE, strsLive |-> TRUE,
           optFreed |-> FALSE, diag |-> MsgNone]
NullOut == [null |-> TRUE, bands |-> 0]
NoResult == [kind |-> "none", msg |-> MsgNone, bands |-> 0]

VrtInit ==
    /\ pc = "idle" /\ mode = "none" /\ dest = None
    /\ datasets = <<>> /\ paths = <<>> /\ srcBlocks = 0
    /\ newArgs = None /\ newResult = "none"
    /\ optState = "None" /\ optGiven = FALSE /\ nOptNew = 0 /\ nOptFree = 0
    /\ cDest = "none" /\ cOptions = "NULL" /\ pathIdx = 0 /\ strBufs = <<>>
    /\ arrBuf = "none" /\ srcArgs = NoArgs /\ call = NoCall
    /\ datasetOut = NullOut /\ lastErr = MsgNone /\ result = NoResult
    /\ persisted = None /\ reopened = None

GeomIdle ==
    /\ gpc = "off" /\ gExpected = <<>> /\ gTest = <<>> /\ gOutcome = <<>>

Init == VrtInit /\ GeomIdle

\* ------------------------------------------------- BuildVRTOptions::new
\* Lines 28-31: every argument through CString::new, the first error returned.
ConvertArgs(args) == [i \in 1..Len(args) |-> CStringNew(args[i])]

OptionsNew ==
    /\ pc = "idle" /\ newResult = "none"
    /\ \E args \in SeqsUpTo(Strings, MaxArgs) :
         LET conv == ConvertArgs(args) IN
         /\ newArgs' = Some(args)
         /\ IF \E i \in 1..Len(args) : ~conv[i].ok
            THEN /\ newResult' = "EncodingError"
                 /\ UNCHANGED <<optState, nOptNew>>
            ELSE /\ newResult' = "Ok"
                 /\ optState' = "Live"
                 /\ nOptNew' = nOptNew + 1
    /\ pc' = "new_ret"
    /\ UNCHANGED <<mode, dest, datasets, paths, srcBlocks, optGiven, nOptFree, cDest, cOptions,
                   pathIdx, strBufs, arrBuf, srcArgs, call, datasetOut, lastErr, result,
                   persisted, reopened, geomVars>>

\* Line 47: new returns; its argument strings are gone, the caller has the Result.
OptionsNewReturn ==
    /\ pc = "new_ret"
    /\ pc' = "idle"
    /\ newArgs' = None
    /\ UNCHANGED <<mode, dest, datasets, paths, srcBlocks, newResult, optState, optGiven, nOptNew,
                   nOptFree, cDest, cOptions, pathIdx, strBufs, arrBuf, srcArgs, call,
                   datasetOut, lastErr, result, persisted, reopened, geomVars>>

\* ------------------------------------------------ the two public entries
EnterBuild(m, d, ds, ps, b, give) ==
    /\ pc' = "dest"
    /\ mode' = m /\ dest' = d /\ datasets' = ds /\ paths' = ps /\ srcBlocks' = b
    /\ optGiven' = give
    /\ newArgs' = None /\ newResult' = "none"
    /\ UNCHANGED <<optState, nOptNew, nOptFree, cDest, cOptions, pathIdx, strBufs,
                   arrBuf, srcArgs, call, datasetOut, lastErr, result, persisted,
                   reopened, geomVars>>

DestChoices == {None} \cup {Some(s) : s \in Strings}

\* The source lists a caller passes: up to MaxSrc entries, followed by b blocks
\* of 2^31 copies of the last of them; an empty list has no last entry to repeat.
BlockChoices(items) == IF items = <<>> THEN {0} ELSE 0..MaxBlocks

\* The number of entries of such a list, a usize.
ListLen(items, b) == USize(b, Len(items))
OptionChoices == IF optState = "Live" THEN {TRUE} ELSE {FALSE}

\* build_vrt: DSSpec::DS of the borrowed datasets.
BuildVrt ==
    /\ pc = "idle"
    /\ \E d \in DestChoices, ds \in SeqsUpTo(Handles, MaxSrc), give \in OptionChoices :
          \E b \in BlockChoices(ds) : EnterBuild("DS", d, ds, <<>>, b, give)

\* build_vrt_from_paths: DSSpec::Path of the paths.
BuildVrtFromPaths ==
    /\ pc = "idle"
    /\ \E d \in DestChoices, ps \in SeqsUpTo(Strings, MaxSrc), give \in OptionChoices :
          \E b \in BlockChoices(ps) : EnterBuild("Path", d, <<>>, ps, b, give)

\* ----------------------------------------------------------- _build_vrt
EncodingError == [kind |-> "EncodingError", msg |-> MsgNone, bands |-> 0]

\* Line 125: dest.map(_path_to_c_string).transpose()
DestConv(d) == IF IsSome(d) THEN PathToCString(d[1]) ELSE [ok |-> TRUE, buf |-> <<>>]

\* A resolution that takes the options by value: the handle is dropped on the spot.
ResolveOptionsByValue ==
    [c_options |-> IF optGiven THEN "obj" ELSE "NULL",
     optState |-> IF optGiven THEN "Freed" ELSE optState,
     frees |-> IF optGiven THEN 1 ELSE 0]

\* Lines 128-131: options.as_ref().map(|x| x.c_options).unwrap_or(null())
ResolveOptions ==
    [c_options |-> IF optGiven THEN "obj" ELSE "NULL",
     optState |-> optState,
     frees |-> 0]

\* Lines 125-131.  On a destination that does not convert, `?` returns at once.
ConvertDest ==
    /\ pc = "dest"
    /\ IF ~DestConv(dest).ok
       THEN /\ result' = EncodingError
            /\ pc' = "ret"
            /\ UNCHANGED <<cDest, cOptions, optState, nOptFree>>
       ELSE /\ cDest' = IF IsSome(dest) THEN "live" ELSE "none"
            /\ cOptions' = ResolveOptions.c_options
            /\ optState' = ResolveOptions.optState
            /\ nOptFree' = nOptFree + ResolveOptions.frees
            /\ pc' = "marshal"
            /\ UNCHANGED result
    /\ UNCHANGED <<mode, dest, datasets, paths, srcBlocks, newArgs, newResult, optGiven, nOptNew,
                   pathIdx, strBufs, arrBuf, srcArgs, call, datasetOut, lastErr,
                   persisted, reopened, geomVars>>

\* The buffer of a Vec collected from n items: an empty Vec allocates nothing.
VecBuf(n) == IF IsZero(n) THEN "none" ELSE "live"
\* Vec::as_ptr / as_mut_ptr: the buffer, or a non-null dangling address when empty.
VecPtr(n) == IF IsZero(n) THEN "dangling" ELSE "buf"

\* Lines 142 and 150: the arm's local Vec goes out of scope at the closing brace.
ArmEnd(buf) == IF buf = "live" THEN "freed" ELSE buf

\* Line 141: (datasets_raw.len(), datasets_raw.as_mut_ptr(), null())
DSArm(n) ==
    [src_count |-> n, src_datasets |-> VecPtr(n), src_dataset_names |-> "NULL"]

\* Line 149: (c_paths.len(), null_mut(), c_paths.as_ptr())
PathArm(n) ==
    [src_count |-> n, src_datasets |-> "NULL", src_dataset_names |-> VecPtr(n)]

\* Lines 134-142.
MarshalDS ==
    /\ pc = "marshal" /\ mode = "DS"
    /\ srcArgs' = DSArm(ListLen(datasets, srcBlocks))
    /\ arrBuf' = ArmEnd(VecBuf(ListLen(datasets, srcBlocks)))
    /\ pc' = "call"
    /\ UNCHANGED <<mode, dest, datasets, paths, srcBlocks, newArgs, newResult, optState, optGiven,
                   nOptNew, nOptFree, cDest, cOptions, pathIdx, strBufs, call,
                   datasetOut, lastErr, result, persisted, reopened, geomVars>>

\* Line 147: cp.map(|p| p.as_ptr()): the CString is moved into the closure and
\* dropped when the closure returns; the pointer it gave out survives it.
TakePtr == "freed"

\* Lines 146-148, one item of the iterator: the identifier through
\* _path_to_c_string; one that does not convert ends the collect with its
\* error, which `?` returns.
ConvertPath ==
    /\ pc = "marshal" /\ mode = "Path" /\ pathIdx < Len(paths)
    /\ IF ~PathToCString(paths[pathIdx + 1]).ok
       THEN /\ result' = EncodingError
            /\ pc' = "ret"
            /\ UNCHANGED <<pathIdx, strBufs>>
       ELSE /\ pathIdx' = pathIdx + 1
            /\ strBufs' = Append(strBufs, TakePtr)
            /\ UNCHANGED <<pc, result>>
    /\ UNCHANGED <<mode, dest, datasets, paths, srcBlocks, newArgs, newResult, optState, optGiven,
                   nOptNew, nOptFree, cDest, cOptions, arrBuf, srcArgs, call,
                   datasetOut, lastErr, persisted, reopened, geomVars>>

\* Lines 148-150: the collect is complete.  The copies of the last entry that
\* follow it convert as it did, and their CStrings go the same way (strBufs
\* holds the state of the entries converted one by one).
FinishPath ==
    /\ pc = "marshal" /\ mode = "Path" /\ pathIdx = Len(paths)
    /\ srcArgs' = PathArm(ListLen(strBufs, srcBlocks))
    /\ arrBuf' = ArmEnd(VecBuf(ListLen(strBufs, srcBlocks)))
    /\ pc' = "call"
    /\ UNCHANGED <<mode, dest, datasets, paths, srcBlocks, newArgs, newResult, optState, optGiven,
                   nOptNew, nOptFree, cDest, cOptions, pathIdx, strBufs, call,
                   datasetOut, lastErr, result, persisted, reopened, geomVars>>

\* ------------------------------------------------ the engine (GDAL)
CStrings == {s \in Strings : ~HasNul(s)}

\* Line 156: the count the engine receives.
CallCount == AsCInt(srcArgs.src_count)

\* What the engine can read as the handle array: the first CallCount cells.
\* Through a pointer to a released buffer it reads whatever the allocator left
\* there.
HandleViews ==
    IF CallCount <= 0 \/ srcArgs.src_datasets = "NULL" THEN {<<>>}
    ELSE IF arrBuf = "live" THEN {SubSeq(datasets, 1, CallCount)}
    ELSE [1..CallCount -> HandleValues]

\* One identifier as the engine reads it: a C string, or an unreadable address.
NameCells == {[ok |-> TRUE, s |-> s] : s \in CStrings} \cup {[ok |-> FALSE, s |-> <<>>]}

NameViews ==
    IF CallCount <= 0 \/ srcArgs.src_dataset_names = "NULL" THEN {<<>>}
    ELSE IF arrBuf = "live"
    THEN {v \in [1..CallCount -> NameCells] :
            \A i \in 1..CallCount :
                strBufs[i] = "live" => v[i] = [ok |-> TRUE, s |-> CView(PathToCString(paths[i]).buf)]}
    ELSE [1..CallCount -> NameCells]

EngineNull(m) == [kind |-> "null", bands |-> 0, msg |-> m]
EngineDs(b) == [kind |-> "ds", bands |-> b, msg |-> MsgNone]
EngineCrash == [kind |-> "crash", bands |-> 0, msg |-> MsgNone]

\* GDALBuildVRT on the handles it read: an empty source list is engine-defined
\* (an empty composite or a failure); a cell that is no live handle is refused or
\* faults; otherwise the composite has the bands of its sources (of the first).
ComposeHandles(seen) ==
    IF Len(seen) = 0 THEN {EngineNull(MsgNoSource), EngineDs(0)}
    ELSE IF \E i \in 1..Len(seen) : seen[i] \notin Handles
    THEN {EngineNull(MsgBadHandle), EngineCrash}
    ELSE {EngineDs(DatasetBands(seen[1]))}

\* GDALBuildVRT on the names it read: each is opened by the engine.
ComposeNames(seen) ==
    IF Len(seen) = 0 THEN {EngineNull(MsgNoSource), EngineDs(0)}
    ELSE IF \E i \in 1..Len(seen) : ~seen[i].ok
    THEN {EngineNull(MsgOpen), EngineCrash}
    ELSE IF \E i \in 1..Len(seen) : FileBands(seen[i].s) = 0
    THEN {EngineNull(MsgOpen)}
    ELSE {EngineDs(FileBands(seen[1].s))}

\* A negative count is outside the engine's contract: it finds no source, or
\* faults on the size it derives from the count.
EngineOutcomes ==
    IF CallCount < 0
    THEN {EngineNull(MsgNoSource), EngineDs(0), EngineCrash}
    ELSE IF srcArgs.src_datasets # "NULL"
    THEN UNION {ComposeHandles(v) : v \in HandleViews}
    ELSE UNION {ComposeNames(v) : v \in NameViews}

\* Lines 153-162: the call of GDALBuildVRT with the marshalled arguments.
EngineCall ==
    /\ pc = "call"
    /\ \E out \in EngineOutcomes :
         /\ call' = [made |-> TRUE,
                     src_count |-> CallCount,
                     src_datasets |-> srcArgs.src_datasets,
                     src_dataset_names |-> srcArgs.src_dataset_names,
                     c_options |-> cOptions,
                     destLive |-> cDest # "freed",
                     arrLive |-> arrBuf # "freed",
                     strsLive |-> /\ \A i \in 1..Len(strBufs) : strBufs[i] = "live"
                                  /\ (mode = "Path" /\ srcBlocks > 0) => TakePtr = "live",
                     optFreed |-> optGiven /\ optState # "Live",
                     diag |-> out.msg]
         /\ lastErr' = out.msg
         /\ datasetOut' = [null |-> out.kind # "ds", bands |-> out.bands]
         /\ persisted' = IF out.kind = "ds" /\ CView(DestConv(dest).buf) # <<>>
                         THEN Some(out.bands) ELSE persisted
         /\ pc' = IF out.kind = "crash" THEN "aborted" ELSE "check"
    /\ UNCHANGED <<mode, dest, datasets, paths, srcBlocks, newArgs, newResult, optState, optGiven,
                   nOptNew, nOptFree, cDest, cOptions, pathIdx, strBufs, arrBuf, srcArgs,
                   result, reopened, geomVars>>

\* utils::_last_null_pointer_err: the engine's last error message, as an error value.
LastNullPointerErr == [kind |-> "EngineError", msg |-> lastErr, bands |-> 0]

\* A check that wraps whatever handle came back.
WrapUnchecked == [kind |-> "Ok", msg |-> MsgNone, bands |-> datasetOut.bands]

\* Lines 164-170: a null handle is the engine's error, any other is wrapped.
WrapResult ==
    IF datasetOut.null THEN LastNullPointerErr
    ELSE [kind |-> "Ok", msg |-> MsgNone, bands |-> datasetOut.bands]

CheckOut ==
    /\ pc = "check"
    /\ result' = WrapResult
    /\ pc' = "ret"
    /\ UNCHANGED <<mode, dest, datasets, paths, srcBlocks, newArgs, newResult, optState, optGiven,
                   nOptNew, nOptFree, cDest, cOptions, pathIdx, strBufs, arrBuf, srcArgs,
                   call, datasetOut, lastErr, persisted, reopened, geomVars>>

\* Lines 58-64 at line 171 (and at each `?`): the function's locals go out of
\* scope, then its parameters; the options handle, if still owned, is dropped,
\* and its drop calls GDALBuildVRTOptionsFree, an engine call like any other.
Return ==
    /\ pc = "ret"
    /\ cDest' = IF cDest = "live" THEN "freed" ELSE cDest
    /\ IF optGiven /\ optState = "Live"
       THEN /\ optState' = "Freed"
            /\ nOptFree' = nOptFree + 1
            /\ lastErr' \in {lastErr, MsgFree}
       ELSE UNCHANGED <<optState, nOptFree, lastErr>>
    /\ pc' = "done"
    /\ UNCHANGED <<mode, dest, datasets, paths, srcBlocks, newArgs, newResult, optGiven, nOptNew,
                   cOptions, pathIdx, strBufs, arrBuf, srcArgs, call, datasetOut,
                   result, persisted, reopened, geomVars>>

\* The caller reopens the persisted destination (Dataset::open).
Reopen ==
    /\ pc = "done" /\ result.kind = "Ok" /\ IsSome(dest) /\ IsSome(persisted)
    /\ reopened' = persisted
    /\ pc' = "reopened"
    /\ UNCHANGED <<mode, dest, datasets, paths, srcBlocks, newArgs, newResult, optState, optGiven,
                   nOptNew, nOptFree, cDest, cOptions, pathIdx, strBufs, arrBuf, srcArgs,
                   call, datasetOut, lastErr, result, persisted, geomVars>>

Next ==
    \/ OptionsNew
    \/ OptionsNewReturn
    \/ BuildVrt
    \/ BuildVrtFromPaths
    \/ ConvertDest
    \/ MarshalDS
    \/ ConvertPath
    \/ FinishPath
    \/ EngineCall
    \/ CheckOut
    \/ Return
    \/ Reopen

Spec == Init /\ [][Next]_vars

\* ======================================================================
\* Geometry equivalence (src/src/test_utils.rs, assert_geom_equivalence)
\* ======================================================================

\* ---------------------------------------------------- binary floating point
\* Coordinates are f64.  The model keeps the format's behaviour (round to
\* nearest, ties to even, NaN) at a reduced width: a finite value is an integer
\* count of the smallest unit, representable when MantissaBits significant bits
\* hold it.
MantissaBits == 2

F(v) == [nan |-> FALSE, v |-> v]
NaN == [nan |-> TRUE, v |-> 0]

Abs(n) == IF n < 0 THEN 0 - n ELSE n

RECURSIVE Scale(_, _)
Scale(m, s) == IF m \div s < 2^MantissaBits THEN s ELSE Scale(m, 2 * s)

\* The representable value nearest to the real m >= 0, ties to the even significand.
RoundMag(m) ==
    LET s == Scale(m, 1)
        q == m \div s
        r == m % s
    IN  IF 2 * r > s \/ (2 * r = s /\ q % 2 = 1) THEN (q + 1) * s ELSE q * s

FRound(x) == IF x < 0 THEN 0 - RoundMag(0 - x) ELSE RoundMag(x)

\* e - t on f64: the exact difference, rounded; NaN if either is NaN.
FSub(a, b) == IF a.nan \/ b.nan THEN NaN ELSE F(FRound(a.v - b.v))
\* f64::abs
FAbs(a) == IF a.nan THEN NaN ELSE F(Abs(a.v))
\* a < b on f64: false when either is NaN.
FLt(a, b) == ~a.nan /\ ~b.nan /\ a.v < b.v
FLe(a, b) == ~a.nan /\ ~b.nan /\ a.v <= b.v

\* Line 60: const EPSILON: f64 = 1e-8, a representable value of the format.
EPSILON == F(2^(MantissaBits + 1))

\* ------------------------------------------------------------- geometries
\* vector::Geometry as the comparator sees it: a type tag, child geometries, and
\* for a leaf its (x, y, z) points.
Geom(ty, ch, ps) == [type |-> ty, children |-> ch, points |-> ps]

GeometryType(g) == g.type
GeometryName(g) ==
    CASE g.type \in {"wkbPoint", "wkbPoint25D"} -> "POINT"
      [] g.type = "wkbLineString" -> "LINESTRING"
      [] g.type = "wkbMultiLineString" -> "MULTILINESTRING"
      [] OTHER -> "GEOMETRYCOLLECTION"
GeometryCount(g) == Len(g.children)
PointCount(g) == Len(g.points)
GetGeometry(g, i) == g.children[i + 1]
\* An index past the end reads as the origin.
GetPoint(g, i) == IF i < Len(g.points) THEN g.points[i + 1] ELSE <<F(0), F(0), F(0)>>
\* Geometry::eq: the same type, topology and coordinates, bit for bit.
GeomEq(a, b) == a = b

\* ----------------------------------------------------------- the comparator
Pass == [ok |-> TRUE, why |-> "", index |-> 0, axis |-> ""]
Fail(why, i, n) == [ok |-> FALSE, why |-> why, index |-> i, axis |-> n]

\* A tolerance test that accepts a difference equal to the tolerance.
CheckDistInclusive(e, t) == FLe(FAbs(FSub(e, t)), EPSILON)

\* Lines 93-100, check_dist: (e - t).abs() < EPSILON
CheckDist(e, t) == FLt(FAbs(FSub(e, t)), EPSILON)

\* Lines 102-109: the points in index order, each axis in the order x, y, z.
RECURSIVE CheckPoints(_, _, _)
CheckPoints(eg, tg, i) ==
    IF i >= PointCount(eg) THEN Pass
    ELSE LET p1 == GetPoint(eg, i)
             p2 == GetPoint(tg, i)
         IN  IF ~CheckDist(p1[1], p2[1]) THEN Fail("coordinate", i, "x")
             ELSE IF ~CheckDist(p1[2], p2[2]) THEN Fail("coordinate", i, "y")
             ELSE IF ~CheckDist(p1[3], p2[3]) THEN Fail("coordinate", i, "z")
             ELSE CheckPoints(eg, tg, i + 1)

\* A comparator without the identity shortcut.
NoFastPath(expected, test) == FALSE

\* Lines 62-64: structurally equal geometries end the comparison.
FastPath(expected, test) == GeomEq(expected, test)

\* A comparator that does not compare the numbers of children.
ChildCountsUnchecked(expected, test) == TRUE

\* Lines 76-80: assert_eq!(expected.geometry_count(), test.geometry_count())
ChildCountsMatch(expected, test) == GeometryCount(expected) = GeometryCount(test)

RECURSIVE AssertGeomEquivalence(_, _)

\* Lines 89-91: the children pairwise, in index order; the first failure ends it.
RECURSIVE CheckChildren(_, _, _)
CheckChildren(eg, tg, i) ==
    IF i >= GeometryCount(eg) THEN Pass
    \* get_geometry panics on an index the geometry does not have
    ELSE IF i >= GeometryCount(tg) THEN Fail("no such child", i, "")
    ELSE LET r == AssertGeomEquivalence(GetGeometry(eg, i), GetGeometry(tg, i))
         IN  IF ~r.ok THEN r ELSE CheckChildren(eg, tg, i + 1)

\* Lines 59-111.
AssertGeomEquivalence(expected, test) ==
    IF FastPath(expected, test) THEN Pass
    ELSE IF GeometryType(expected) # GeometryType(test)
    THEN Fail("geometry types do not match", 0, "")
    ELSE IF GeometryName(expected) # GeometryName(test)
    THEN Fail("geometry names do not match", 0, "")
    ELSE IF ~ChildCountsMatch(expected, test)
    THEN Fail("sub-geometry counts do not match", 0, "")
    ELSE IF PointCount(expected) # PointCount(test)
    THEN Fail("geometry point counts do not match", 0, "")
    ELSE IF GeometryCount(expected) > 0
    THEN CheckChildren(expected, test, 0)
    ELSE CheckPoints(expected, test, 0)

\* ------------------------------------------------------------ the inputs
MaxPoints == 2
MaxChildren == 2

Coords == {F(0), F(1), EPSILON, NaN}

\* Points off the origin on at most one axis; NaN on the x axis only.
Points ==
    {p \in Coords \X Coords \X Coords :
        /\ Cardinality({k \in 1..3 : p[k] # F(0)}) <= 1
        /\ ~p[2].nan /\ ~p[3].nan}

LineStrings == {Geom("wkbLineString", <<>>, ps) : ps \in SeqsUpTo(Points, MaxPoints)}
PointGeoms ==
    {Geom(ty, <<>>, ps) : ty \in {"wkbPoint", "wkbPoint25D"},
                          ps \in SeqsUpTo({<<F(0), F(0), F(0)>>, <<EPSILON, F(0), F(0)>>}, 1)}
ShortLines ==
    {Geom("wkbLineString", <<>>, ps) :
        ps \in SeqsUpTo({<<F(0), F(0), F(0)>>, <<F(1), F(0), F(0)>>, <<EPSILON, F(0), F(0)>>}, 1)}
MultiLines == {Geom("wkbMultiLineString", ch, <<>>) : ch \in SeqsUpTo(ShortLines, MaxChildren)}
Collections ==
    {Geom("wkbGeometryCollection", ch, <<>>) :
        ch \in SeqsUpTo({m \in MultiLines : GeometryCount(m) <= 1}, MaxChildren)}

Geoms == LineStrings \cup PointGeoms \cup MultiLines \cup Collections

GeomInit ==
    /\ VrtInit
    /\ gpc = "input"
    /\ gExpected \in Geoms
    /\ gTest \in Geoms
    /\ gOutcome = Pass

\* One run of assert_geom_equivalence(expected, test); a panic is ok = FALSE.
Compare ==
    /\ gpc = "input"
    /\ gOutcome' = AssertGeomEquivalence(gExpected, gTest)
    /\ gpc' = "done"
    /\ UNCHANGED <<gExpected, gTest, vrtVars>>

NextGeom == Compare

SpecGeom == GeomInit /\ [][NextGeom]_vars

\* ======================================================================
\* Properties
\* ======================================================================

\* The integer c is the usize n.
CountIs(c, n) == n.hi = 0 /\ c = n.lo

\* C1: at every call of GDALBuildVRT exactly one of the handle array and the
\* identifier array is non-null, the non-null one is that of the DSSpec variant
\* (DS: the handle array, Path: the identifier array), and the count passed is
\* the number of entries of the list, the empty list included.
C1_ExactlyOneArray ==
    call.made =>
        /\ (call.src_datasets = "NULL") # (call.src_dataset_names = "NULL")
        /\ mode = "DS" =>
              call.src_datasets # "NULL" /\ CountIs(call.src_count, ListLen(datasets, srcBlocks))
        /\ mode = "Path" =>
              call.src_dataset_names # "NULL" /\ CountIs(call.src_count, ListLen(paths, srcBlocks))

\* The engine was called for a list of 2^31 + 1 identifiers: the identifier
\* array is the non-null one, and the count passed is 1 - 2^31.
C1_Witness ==
    /\ call.made /\ mode = "Path" /\ Len(paths) = 1 /\ srcBlocks = 1
    /\ call.src_datasets = "NULL" /\ call.src_dataset_names = "buf"
    /\ call.src_count = 0 - 2147483647

\* C2: a build that is given options releases the native options object exactly
\* once on every exit path (Ok, EncodingError, EngineError): not at all while
\* the build is running, in particular not before GDALBuildVRT has returned,
\* and exactly once when the build has returned.
C2_OptionsReleasedOnce ==
    optGiven =>
        /\ nOptFree <= 1
        /\ pc \in {"dest", "marshal", "call", "check", "ret", "aborted"} =>
              nOptFree = 0 /\ optState = "Live"
        /\ pc \in {"done", "reopened"} => nOptFree = 1 /\ optState = "Freed"
        /\ call.made => ~call.optFreed

\* A build given options has returned the encoding error of its second source
\* identifier, without calling the engine, and has released the options once.
C2_Witness ==
    /\ pc = "done" /\ optGiven /\ mode = "Path"
    /\ result.kind = "EncodingError" /\ pathIdx = 1 /\ ~call.made
    /\ nOptFree = 1 /\ nOptNew = 1

BadBuildInput ==
    \/ IsSome(dest) /\ HasNul(dest[1])
    \/ mode = "Path" /\ \E i \in 1..Len(paths) : HasNul(paths[i])

\* C3: an argument with an embedded NUL makes BuildVRTOptions::new fail with
\* the encoding error and construct no native options object; a destination
\* or a source identifier with an embedded NUL, at any position of the list,
\* makes the build fail with the encoding error and GDALBuildVRT is never called.
C3_NulIsEncodingError ==
    /\ (IsSome(newArgs) /\ \E i \in 1..Len(newArgs[1]) : HasNul(newArgs[1][i])) =>
          newResult = "EncodingError" /\ nOptNew = 0 /\ optState = "None"
    /\ (mode # "none" /\ BadBuildInput) =>
          /\ ~call.made
          /\ pc \in {"dest", "marshal", "ret", "done"}
          /\ pc \in {"ret", "done"} => result = EncodingError

\* A build by identifier whose first identifier is fine and whose second holds a
\* NUL after a regular byte has failed with the encoding error, the engine not called.
C3_Witness ==
    /\ pc = "done" /\ mode = "Path" /\ Len(paths) = 2
    /\ ~HasNul(paths[1]) /\ paths[2] = <<1, 0>>
    /\ (IsSome(dest) => ~HasNul(dest[1]))
    /\ result = EncodingError /\ ~call.made

\* C4: when GDALBuildVRT returns null the build fails with the engine error
\* carrying the message the engine left at that call, read before the options
\* are released; a null handle is never wrapped: an Ok result wraps the
\* non-null handle the engine returned.
C4_NullIsEngineError ==
    /\ (call.made /\ datasetOut.null /\ pc \in {"ret", "done"}) =>
          result = [kind |-> "EngineError", msg |-> call.diag, bands |-> 0]
    /\ (call.made /\ datasetOut.null /\ pc = "ret") => nOptFree = 0
    /\ result.kind = "Ok" =>
          call.made /\ ~datasetOut.null /\ result.bands = datasetOut.bands
    /\ result.kind = "EngineError" => call.made /\ datasetOut.null

\* The build has failed with the engine's message of the composition call, and
\* the release of the options has since overwritten the diagnostic slot.
C4_Witness ==
    /\ pc = "done" /\ optGiven /\ result.kind = "EngineError"
    /\ result.msg = MsgOpen /\ lastErr = MsgFree /\ nOptFree = 1

Homogeneous(bands) == \A i \in 1..Len(bands) : bands[i] = bands[1] /\ bands[i] > 0

\* C5: a successful build by handle from a non-empty list of open datasets that
\* all have C bands yields a composite with C bands.
C5_ByHandleKeepsBands ==
    (/\ pc \in {"done", "reopened"} /\ mode = "DS" /\ Len(datasets) > 0
     /\ Homogeneous([i \in 1..Len(datasets) |-> DatasetBands(datasets[i])])
     /\ result.kind = "Ok")
        => result.bands = DatasetBands(datasets[1])

\* C6: after a build by identifier from a non-empty list of existing sources
\* with C bands each, the reopened destination has the band count a build by
\* handle of the same sources has, C.
C6_ByPathMatchesByHandle ==
    (/\ pc = "reopened" /\ mode = "Path" /\ Len(paths) > 0
     /\ Homogeneous([i \in 1..Len(paths) |-> FileBands(paths[i])]))
        => reopened = Some(FileBands(paths[1]))

\* C10: when GDALBuildVRT is called every buffer whose address it is given is
\* still allocated: the destination string, the source array, and each
\* identifier string the array points to.
C10_BuffersLiveAtCall ==
    call.made => call.destLive /\ call.arrLive /\ call.strsLive

\* ----------------------------------------------- geometry comparison
Axes == <<"x", "y", "z">>

\* A pair of leaves that the structural checks let through to the coordinates.
LeafPair ==
    /\ gpc = "done"
    /\ GeometryType(gExpected) = GeometryType(gTest)
    /\ GeometryCount(gExpected) = 0 /\ GeometryCount(gTest) = 0
    /\ PointCount(gExpected) = PointCount(gTest)

Finite(i, k) == ~gExpected.points[i + 1][k].nan /\ ~gTest.points[i + 1][k].nan
\* The absolute difference of the two coordinates as real numbers.
ExactDiff(i, k) == Abs(gExpected.points[i + 1][k].v - gTest.points[i + 1][k].v)

PointIdx == 0..(PointCount(gExpected) - 1)

\* The largest representable value below the tolerance.
PredEpsilon ==
    CHOOSE v \in 0..(EPSILON.v - 1) :
        FRound(v) = v /\ \A w \in (v + 1)..(EPSILON.v - 1) : FRound(w) # w

\* The coordinate test fails at point i, axis k: a NaN, or a difference that the
\* subtraction rounds to the tolerance or more.
AxisFails(i, k) == ~Finite(i, k) \/ FRound(ExactDiff(i, k)) >= EPSILON.v

Before(j, l, i, k) == j < i \/ (j = i /\ l < k)

\* C7 as stated: leaves of equal type and point count are non-equivalent when
\* some axis of some point differs by the tolerance or more, and equivalent
\* when every axis of every point differs by strictly less than the tolerance;
\* a failure names the first point index and axis that differ by the tolerance
\* or more.
C7_StrictlyLessIsEquivalent ==
    LeafPair =>
        /\ (\E i \in PointIdx, k \in 1..3 : Finite(i, k) /\ ExactDiff(i, k) >= EPSILON.v)
              => ~gOutcome.ok
        /\ (\A i \in PointIdx, k \in 1..3 : Finite(i, k) /\ ExactDiff(i, k) < EPSILON.v)
              => gOutcome.ok
        /\ (~gOutcome.ok /\ \A i \in PointIdx, k \in 1..3 : Finite(i, k)) =>
              \E i \in PointIdx, k \in 1..3 :
                  /\ gOutcome.index = i /\ gOutcome.axis = Axes[k]
                  /\ ExactDiff(i, k) >= EPSILON.v
                  /\ \A j \in PointIdx, l \in 1..3 :
                        Before(j, l, i, k) => ExactDiff(j, l) < EPSILON.v

\* C7 (amended): leaves of equal type and point count are non-equivalent when
\* some axis of some point differs by the tolerance or more; they are equivalent
\* when on every axis of every point the difference, as the subtraction rounds
\* it, is below the tolerance, which it is whenever the exact difference is no
\* more than the largest representable value below the tolerance; and a
\* failure names the first point index and, at it, the first axis in the order
\* x, y, z whose rounded difference is not below the tolerance.
C7_ToleranceOnRoundedDifference ==
    LeafPair =>
        /\ (\E i \in PointIdx, k \in 1..3 : Finite(i, k) /\ ExactDiff(i, k) >= EPSILON.v)
              => ~gOutcome.ok
        /\ (\A i \in PointIdx, k \in 1..3 : Finite(i, k) /\ ExactDiff(i, k) <= PredEpsilon)
              => gOutcome.ok
        /\ (\A i \in PointIdx, k \in 1..3 : ~AxisFails(i, k)) => gOutcome.ok
        /\ ~gOutcome.ok =>
              /\ gOutcome.why = "coordinate"
              /\ \E i \in PointIdx, k \in 1..3 :
                    /\ gOutcome.index = i /\ gOutcome.axis = Axes[k]
                    /\ AxisFails(i, k)
                    /\ \A j \in PointIdx, l \in 1..3 : Before(j, l, i, k) => ~AxisFails(j, l)

\* Two line strings of two points: the first points agree, the second differ by
\* exactly the tolerance on the y axis only, and y of point 1 is what is reported.
C7_Witness ==
    /\ LeafPair /\ PointCount(gExpected) = 2
    /\ gExpected.points[1] = gTest.points[1]
    /\ Finite(1, 1) /\ Finite(1, 2) /\ Finite(1, 3)
    /\ ExactDiff(1, 1) = 0 /\ ExactDiff(1, 2) = EPSILON.v /\ ExactDiff(1, 3) = 0
    /\ ~gOutcome.ok /\ gOutcome.index = 1 /\ gOutcome.axis = "y"

\* The numbers of children or of points differ at this pair, or at a pair of
\* children the index-order descent pairs up.
RECURSIVE CountMismatch(_, _)
CountMismatch(e, t) ==
    \/ GeometryCount(e) # GeometryCount(t)
    \/ PointCount(e) # PointCount(t)
    \/ \E i \in 0..(GeometryCount(e) - 1) : CountMismatch(GetGeometry(e, i), GetGeometry(t, i))

\* C8: geometries whose child counts or point counts differ, at the top or at
\* any index-aligned pair of children, are not equivalent whatever their
\* coordinates; and equivalence is index-aligned: equivalent containers have
\* equivalent children at each index.
C8_CountMismatchNotEquivalent ==
    gpc = "done" =>
        /\ CountMismatch(gExpected, gTest) => ~gOutcome.ok
        /\ (gOutcome.ok /\ GeometryCount(gExpected) > 0) =>
              /\ GeometryCount(gTest) = GeometryCount(gExpected)
              /\ \A i \in 0..(GeometryCount(gExpected) - 1) :
                    AssertGeomEquivalence(GetGeometry(gExpected, i), GetGeometry(gTest, i)).ok

\* Two multi line strings with one child more in the second, the children they
\* share being identical: reported as a child count mismatch.
C8_Witness ==
    /\ gpc = "done"
    /\ GeometryType(gExpected) = "wkbMultiLineString"
    /\ GeometryType(gTest) = "wkbMultiLineString"
    /\ GeometryCount(gExpected) = 1 /\ GeometryCount(gTest) = 2
    /\ GetGeometry(gExpected, 0) = GetGeometry(gTest, 0)
    /\ ~gOutcome.ok /\ gOutcome.why = "sub-geometry counts do not match"

\* C9: a geometry is equivalent to itself, whatever its nesting depth and its
\* coordinates.
C9_Reflexive ==
    (gpc = "done" /\ gExpected = gTest) => gOutcome.ok

\* A line string with a NaN coordinate has been compared with itself.
C9_Witness ==
    /\ gpc = "done" /\ gExpected = gTest /\ gOutcome.ok
    /\ PointCount(gExpected) > 0 /\ gExpected.points[1][1].nan

====
